---- MODULE Spec2Model ----
(***************************************************************************)
(* Intensity fluctuation correction of imars3d                             *)
(* (src/src/imars3d/backend/corrections/intensity_fluctuation_correction.py)*)
(* and the validation of workflow configurations                           *)
(* (src/src/imars3d/backend/workflow/validate.py)                          *)
(*                                                                         *)
(* Arrays are records [ndim, shape, data]; data is a nested sequence, one  *)
(* level per axis.  Column numbers (start_cols, stop_cols, middle_col) are *)
(* the 0-based numbers of the Python code; TLA+ sequences are 1-based, so  *)
(* column c of the code is element c + 1 of a row.                         *)
(*                                                                         *)
(* A float is modelled exactly: a finite value is a reduced fraction       *)
(* [num, den] with den > 0, and the IEEE results of a division by zero or  *)
(* by NaN are the values Inf, NegInf and NaN, which have den = 0.          *)
(***************************************************************************)
EXTENDS Integers, Sequences, FiniteSets, TLC

VARIABLES
    \* ---- the arguments of one call
    fn,               \* "ifc" = intensity_fluctuation_correction, "roi" = normalize_roi
    ct,               \* params.ct
    air_pixels,       \* params.air_pixels
    sigma,            \* params.sigma
    roi,              \* params.roi
    max_workers,      \* params.max_workers, as requested by the caller
    cpu,              \* the parallelism the host offers
    canny,            \* the behaviour of skimage.feature.canny on this host
    faulty,           \* the frames whose worker task runs out of memory
    \* ---- the call
    pc,               \* position of the calling process
    self_max_workers, \* self.max_workers
    clamps,           \* how many times clamp_max_workers ran in this call
    mw_arg,           \* parameter max_workers of the inner method
    shm,              \* the block of the SharedMemoryManager
    shm_arrays,       \* the numpy view over the block
    kwargs,           \* kwargs handed to process_map
    pool,             \* the ProcessPoolExecutor of process_map
    chunks,           \* the chunks of frame numbers submitted to the pool
    cstate,           \* per chunk: pending, running, done, failed, cancelled
    cresult,          \* per chunk: its list of results, or its exception
    nxt,              \* the chunk whose result the caller waits for
    rst,              \* results collected so far
    err,              \* the exception in flight
    ext_calls,        \* calls made to tomopy
    applied,          \* frame numbers handed to the per-image function
    outcome,          \* what the call returned or raised
    base,             \* outcome of the same call made with one worker
    \* ---- one application of the per-image function
    image,            \* the 2D image
    edge,             \* the mask feature.canny returned for it
    out,              \* what the function returned
    \* ---- validate.py: one check of a function string
    func_str,         \* the "function" entry of a task
    exists_out,       \* what _function_exists(func_str) returned or raised
    tasks_out,        \* what _validate_tasks_exist did for a task naming func_str
    \* ---- validate.py: an object with a JSONValid attribute
    obj_json,         \* obj._json
    set_out,          \* what the last assignment returned or raised
    got               \* what the last read returned or raised

vars == <<fn, ct, air_pixels, sigma, roi, max_workers, cpu, canny, faulty,
          pc, self_max_workers, clamps, mw_arg, shm, shm_arrays, kwargs, pool,
          chunks, cstate, cresult, nxt, rst, err, ext_calls, applied, outcome,
          base, image, edge, out, func_str, exists_out, tasks_out, obj_json,
          set_out, got>>

callvars == <<fn, ct, air_pixels, sigma, roi, max_workers, cpu, canny, faulty,
              pc, self_max_workers, clamps, mw_arg, shm, shm_arrays, kwargs,
              pool, chunks, cstate, cresult, nxt, rst, err, ext_calls, applied,
              outcome, base>>

imagevars == <<image, edge, out>>

validvars == <<func_str, exists_out, tasks_out, obj_json, set_out, got>>

(***************************************************************************)
(* Bounds of the model                                                     *)
(***************************************************************************)
MaxW == 3        \* widest image given to the per-image function alone
MaxFrames == 2   \* longest stack
MaxCpu == 2      \* largest parallelism of the host

Heights == {1, 2}
Pixels == {0, 1}
None == "None"
NoOutcome == [kind |-> "none"]     \* nothing returned or raised yet
NoArray == [ndim |-> 0, buf |-> "none"]            \* no array yet
NoKwargs == [unset |-> TRUE]       \* no kwargs yet
NoJson == [t |-> "unset"]          \* the attribute _json does not exist yet

(***************************************************************************)
(* Arithmetic                                                              *)
(***************************************************************************)
Abs(n) == IF n < 0 THEN -n ELSE n
Min(S) == CHOOSE x \in S : \A y \in S : x <= y
Max(S) == CHOOSE x \in S : \A y \in S : y <= x

RECURSIVE GCD(_, _)
GCD(a, b) == IF b = 0 THEN a ELSE GCD(b, a % b)

RECURSIVE SeqSum(_)
SeqSum(s) == IF s = <<>> THEN 0 ELSE Head(s) + SeqSum(Tail(s))

RECURSIVE Flatten(_)
Flatten(ss) == IF ss = <<>> THEN <<>> ELSE Head(ss) \o Flatten(Tail(ss))

NaN == [num |-> 0, den |-> 0]
Inf == [num |-> 1, den |-> 0]
NegInf == [num |-> -1, den |-> 0]

\* the float n / d, d # 0
Frac(n, d) ==
    LET g == GCD(Abs(n), Abs(d))
        s == IF d < 0 THEN -1 ELSE 1
    IN  [num |-> (s * n) \div g, den |-> (s * d) \div g]

(***************************************************************************)
(* numpy                                                                   *)
(***************************************************************************)
\* a[:k] and a[k:] of a 1D array, with Python's handling of a negative or
\* too large k
SliceBound(k, n) == IF k < 0 THEN Max({k + n, 0}) ELSE Min({k, n})
SliceTo(row, k) == SubSeq(row, 1, SliceBound(k, Len(row)))
SliceFrom(row, k) == SubSeq(row, SliceBound(k, Len(row)) + 1, Len(row))

\* ndarray.mean() of a 1D array: NaN (and a RuntimeWarning, no exception)
\* when the array is empty
Mean(a) == IF Len(a) = 0 THEN NaN ELSE Frac(SeqSum(a), Len(a))

\* pixel / factor in floating point: a division by zero gives inf or NaN (and
\* a RuntimeWarning, no exception)
Divide(p, f) ==
    IF f = NaN THEN NaN
    ELSE IF f.num = 0
         THEN (IF p = 0 THEN NaN ELSE IF p > 0 THEN Inf ELSE NegInf)
         ELSE Frac(p * f.den, f.num)

Images(h, w) == [1..h -> [1..w -> Pixels]]
Masks(h, w) == [1..h -> [1..w -> BOOLEAN]]

(***************************************************************************)
(* intensity_fluctuation_correction_skimage, lines 113-202.  The mask      *)
(* feature.canny returned (line 149) is the parameter edge_.               *)
(***************************************************************************)
\* line 151
middle_col(edge_) == (Len(edge_[1]) - 1) \div 2

\* np.where(isedge)[0], lines 162-164: the columns of a row marked as edge
EdgeColumns(row) == {j - 1 : j \in {k \in 1..Len(row) : row[k]}}

\* start_cols and stop_cols when the loop of lines 155-167 is over
scan_start_cols(edge_) ==
    [i \in 1..Len(edge_) |->
        IF EdgeColumns(edge_[i]) # {} THEN Min(EdgeColumns(edge_[i]))
        ELSE middle_col(edge_)]

scan_stop_cols(edge_) ==
    [i \in 1..Len(edge_) |->
        IF EdgeColumns(edge_[i]) # {} THEN Max(EdgeColumns(edge_[i]))
        ELSE middle_col(edge_)]

\* lines 169-178
start_cols(image_, edge_) ==
    [i \in 1..Len(edge_) |-> scan_start_cols(edge_)[i] \div 2]

\* faulty variant: line 178 without the halving
stop_cols_NoHalving(image_, edge_) ==
    [i \in 1..Len(edge_) |-> scan_stop_cols(edge_)[i] + Len(image_[1])]

\* faulty variant: line 178 rounding the midpoint up
stop_cols_Ceil(image_, edge_) ==
    [i \in 1..Len(edge_) |->
        (scan_stop_cols(edge_)[i] + Len(image_[1]) + 1) \div 2]

stop_cols(image_, edge_) ==
    [i \in 1..Len(edge_) |-> (scan_stop_cols(edge_)[i] + Len(image_[1])) \div 2]

\* lines 195-199: what each row adds to left and to right
RowLeft(image_, edge_, i) == SliceTo(image_[i], start_cols(image_, edge_)[i])
RowRight(image_, edge_, i) == SliceFrom(image_[i], stop_cols(image_, edge_)[i])

left(image_, edge_) ==
    Flatten([i \in 1..Len(image_) |-> RowLeft(image_, edge_, i)])

right(image_, edge_) ==
    Flatten([i \in 1..Len(image_) |-> RowRight(image_, edge_, i)])

AirPixels(image_, edge_) == left(image_, edge_) \o right(image_, edge_)

\* line 200
factor(image_, edge_) == Mean(AirPixels(image_, edge_))

\* line 202; the function has no raise statement
intensity_fluctuation_correction_skimage(image_, edge_) ==
    [raised |-> FALSE,
     value |-> [i \in 1..Len(image_) |->
                  [j \in 1..Len(image_[i]) |->
                      Divide(image_[i][j], factor(image_, edge_))]]]

(***************************************************************************)
(* Arrays, and the collaborators outside the repository                    *)
(***************************************************************************)
RECURSIVE SeqProd(_)
SeqProd(s) == IF s = <<>> THEN 1 ELSE Head(s) * SeqProd(Tail(s))

\* ndarray.nbytes
NBytes(a) == SeqProd(a.shape) * a.itemsize

\* [img for img in a]: iteration runs over the first axis; each item is a
\* view into the buffer of a
Items(a) ==
    [k \in 1..Len(a.data) |->
        [ndim |-> a.ndim - 1, shape |-> Tail(a.shape),
         itemsize |-> a.itemsize, buf |-> a.buf, data |-> a.data[k]]]

\* np.array(rst) of a list of equally shaped 2D arrays
NpArray(list) ==
    [ndim |-> 3,
     shape |-> IF list = <<>> THEN <<0>>
               ELSE <<Len(list), Len(list[1]), Len(list[1][1])>>,
     itemsize |-> 8,
     buf |-> "new",
     data |-> list]

\* skimage.feature.canny is a black box that returns a boolean mask of the
\* image's shape; the variable canny says which of two detectors it is: one that
\* finds no edge, one that marks every pixel brighter than 0
CannyKinds == {"none", "object"}

feature_canny(kind, image_) ==
    [i \in 1..Len(image_) |->
        [j \in 1..Len(image_[i]) |->
            CASE kind = "none" -> FALSE
              [] kind = "object" -> image_[i][j] > 0]]

\* tomopy.normalize_bg and tomopy.prep.normalize.normalize_roi are opaque:
\* the result is the application itself, of the shape of the input
tomopy_normalize_bg(arr, air, ncore) ==
    [ndim |-> arr.ndim, shape |-> arr.shape, itemsize |-> arr.itemsize,
     buf |-> "tomopy",
     data |-> [ext |-> "tomopy.normalize_bg", arr |-> arr.data,
               air |-> air, ncore |-> ncore]]

tomopy_normalize_roi(arr, roi_, ncore) ==
    [ndim |-> arr.ndim, shape |-> arr.shape, itemsize |-> arr.itemsize,
     buf |-> "tomopy",
     data |-> [ext |-> "tomopy.normalize_roi", arr |-> arr.data,
               roi |-> roi_, ncore |-> ncore]]

\* imars3d.backend.util.functions.clamp_max_workers: 0 asks for all the
\* parallelism there is, any other request is brought into [1, available]
clamp_max_workers(requested, available) ==
    IF requested = 0 THEN available
    ELSE Max({1, Min({requested, available})})

\* imars3d.backend.util.functions.calculate_chunksize: the chunk sizes it may
\* return for num_elements frames; all that is known is chunk size >= 1
calculate_chunksize(num_elements, workers) == 1..Max({1, num_elements})

\* Executor.map(fn, items, chunksize): consecutive runs of chunksize items
GetChunks(n, chunksize) ==
    [c \in 1..((n + chunksize - 1) \div chunksize) |->
        [k \in 1..(Min({c * chunksize, n}) - (c - 1) * chunksize) |->
            (c - 1) * chunksize + k]]

Raised(e) == [kind |-> "raised", error |-> e]
Returned(v) == [kind |-> "returned", value |-> v]

ErrBounds == "ValueError: max_workers must be at least 0"
ErrRank == "ValueError: The image/radiograph stack must be 2D or 3D."
ErrRoiRank == "ValueError: This correction can only be used for a stack, i.e. a 3D image."
ErrSize == "ValueError: 'size' must be a positive number different from zero"
ErrCanny == "ValueError: The parameter image must be a 2-dimensional array"
ErrMemory == "MemoryError"

\* partial(intensity_fluctuation_correction_skimage, sigma=sigma)(item) in a
\* worker process, for item k of the list of line 103
WorkerTask(k) ==
    LET item == Items(shm_arrays)[k]
    IN  IF item.ndim # 2 THEN [raised |-> TRUE, error |-> ErrCanny]
        ELSE IF k \in faulty THEN [raised |-> TRUE, error |-> ErrMemory]
        ELSE intensity_fluctuation_correction_skimage(
                 item.data, feature_canny(canny, item.data))

(***************************************************************************)
(* The arguments a call is made with                                       *)
(***************************************************************************)
Requests == {-1, 0, 1, 2}
AirChoices == {-1, 0, 5}
\* sigma is declared at lines 46-49 without bounds: 0 is a value a call can pass
Sigmas == {0, 3}
RoiDefault == <<0, 0, 10, 10>>
RoiChoices == {RoiDefault, <<0, 0, 1, 1>>}

StackImages == Images(1, 2)

\* an array the caller owns; buf names the memory an array's values live in
Arr(n, sh, d) ==
    [ndim |-> n, shape |-> sh, itemsize |-> 8, buf |-> "caller", data |-> d]

Stacks3D ==
    UNION {{Arr(3, <<n, 1, 2>>, d) : d \in [1..n -> StackImages]} : n \in 0..MaxFrames}

Images2D ==
    {Arr(2, <<1, 2>>, d) : d \in StackImages}
    \cup {Arr(2, <<2, 2>>, <<r, r>>) : r \in [1..2 -> Pixels]}

OtherRanks ==
    {Arr(1, <<2>>, <<0, 1>>), Arr(4, <<1, 1, 1, 2>>, << << << <<0, 1>> >> >> >>)}

Arrays == Stacks3D \cup Images2D \cup OtherRanks

\* the state of a call that has not started
CallStart ==
    /\ pc = "call"
    /\ self_max_workers = 0
    /\ clamps = 0
    /\ mw_arg = None
    /\ shm = "none"
    /\ shm_arrays = NoArray
    /\ kwargs = NoKwargs
    /\ pool = "none"
    /\ chunks = <<>>
    /\ cstate = <<>>
    /\ cresult = <<>>
    /\ nxt = 1
    /\ rst = <<>>
    /\ err = None
    /\ ext_calls = <<>>
    /\ applied = {}
    /\ outcome = NoOutcome

ImageIdle == image = None /\ edge = None /\ out = NoOutcome

ValidIdle ==
    /\ func_str = <<>> /\ exists_out = NoOutcome /\ tasks_out = NoOutcome
    /\ obj_json = NoJson /\ set_out = NoOutcome /\ got = NoOutcome

Init ==
    /\ ct \in Arrays
    /\ max_workers \in Requests
    /\ cpu \in 1..MaxCpu
    /\ \/ /\ fn = "ifc"
          /\ air_pixels \in AirChoices
          /\ sigma \in Sigmas
          /\ roi = RoiDefault
          /\ canny \in IF sigma > 0 THEN CannyKinds ELSE {"none"}
          /\ faulty \in {{}} \cup
                {{k} : k \in IF air_pixels < 0 /\ ct.ndim = 3 /\ sigma > 0
                             THEN 1..Len(ct.data) ELSE {}}
       \/ /\ fn = "roi"
          /\ air_pixels = 5
          /\ sigma = 3
          /\ roi \in RoiChoices
          /\ canny = "none"
          /\ faulty = {}
    /\ base = NoOutcome
    /\ CallStart
    /\ ImageIdle
    /\ ValidIdle

args == <<fn, ct, air_pixels, sigma, roi, max_workers, cpu, canny, faulty>>
workvars == <<kwargs, pool, chunks, cstate, cresult, nxt, rst, applied>>
memvars == <<shm, shm_arrays>>

(***************************************************************************)
(* intensity_fluctuation_correction.__call__, lines 57-72                  *)
(***************************************************************************)
\* line 61: self.instance(**params) runs param's type and bounds checks;
\* max_workers is declared with bounds=(0, None) at lines 50-54
IfcInstance ==
    /\ fn = "ifc" /\ pc = "call"
    /\ IF max_workers < 0
       THEN /\ outcome' = Raised(ErrBounds)
            /\ pc' = "done"
       ELSE /\ pc' = "clamp"
            /\ UNCHANGED outcome
    /\ UNCHANGED <<args, base, imagevars, validvars, self_max_workers, clamps, mw_arg,
                   memvars, workvars, err, ext_calls>>

\* faulty variant: params.max_workers is handed on instead of self.max_workers
IfcClamp_PassRequest ==
    /\ fn = "ifc" /\ pc = "clamp"
    /\ self_max_workers' = clamp_max_workers(max_workers, cpu)
    /\ clamps' = clamps + 1
    /\ mw_arg' = max_workers
    /\ pc' = "validate"
    /\ UNCHANGED <<args, base, imagevars, validvars, memvars, workvars, err, ext_calls,
                   outcome>>

\* lines 66-70: the worker count is resolved and handed to the inner method
IfcClamp ==
    /\ fn = "ifc" /\ pc = "clamp"
    /\ self_max_workers' = clamp_max_workers(max_workers, cpu)
    /\ clamps' = clamps + 1
    /\ mw_arg' = self_max_workers'
    /\ pc' = "validate"
    /\ UNCHANGED <<args, base, imagevars, validvars, memvars, workvars, err, ext_calls,
                   outcome>>

(***************************************************************************)
(* _intensity_fluctuation_correction, lines 74-110                         *)
(***************************************************************************)
\* faulty variant: the rank is not checked
IfcValidate_NoCheck ==
    /\ fn = "ifc" /\ pc = "validate"
    /\ pc' = "policy"
    /\ UNCHANGED <<args, base, imagevars, validvars, self_max_workers, clamps, mw_arg,
                   memvars, workvars, err, ext_calls, outcome>>

\* lines 77-78
IfcValidate ==
    /\ fn = "ifc" /\ pc = "validate"
    /\ IF ct.ndim \notin {2, 3}
       THEN /\ outcome' = Raised(ErrRank)
            /\ pc' = "done"
       ELSE /\ pc' = "policy"
            /\ UNCHANGED outcome
    /\ UNCHANGED <<args, base, imagevars, validvars, self_max_workers, clamps, mw_arg,
                   memvars, workvars, err, ext_calls>>

\* faulty variant: air_pixels <= 0 selects the adaptive path
IfcPolicy_ZeroAdaptive ==
    /\ fn = "ifc" /\ pc = "policy"
    /\ pc' = IF air_pixels <= 0 THEN "alloc" ELSE "delegate"
    /\ UNCHANGED <<args, base, imagevars, validvars, self_max_workers, clamps, mw_arg,
                   memvars, workvars, err, ext_calls, outcome>>

\* line 80, and line 82 when the adaptive path is taken
IfcPolicy ==
    /\ fn = "ifc" /\ pc = "policy"
    /\ pc' = IF air_pixels < 0 THEN "alloc" ELSE "delegate"
    /\ UNCHANGED <<args, base, imagevars, validvars, self_max_workers, clamps, mw_arg,
                   memvars, workvars, err, ext_calls, outcome>>

\* line 110
IfcNormalizeBg ==
    /\ fn = "ifc" /\ pc = "delegate"
    /\ ext_calls' = Append(ext_calls,
           [name |-> "tomopy.normalize_bg", arr |-> ct, air |-> air_pixels,
            ncore |-> mw_arg])
    /\ outcome' = Returned(tomopy_normalize_bg(ct, air_pixels, mw_arg))
    /\ pc' = "done"
    /\ UNCHANGED <<args, base, imagevars, validvars, self_max_workers, clamps, mw_arg,
                   memvars, workvars, err>>

\* line 84: SharedMemory(create=True, size=0) raises ValueError
IfcAlloc ==
    /\ fn = "ifc" /\ pc = "alloc"
    /\ IF NBytes(ct) = 0
       THEN /\ err' = ErrSize
            /\ pc' = "smm_exit"
            /\ UNCHANGED shm
       ELSE /\ shm' = "allocated"
            /\ pc' = "copy"
            /\ UNCHANGED err
    /\ UNCHANGED <<args, base, imagevars, validvars, self_max_workers, clamps, mw_arg,
                   shm_arrays, workvars, ext_calls, outcome>>

\* faulty variant: the view is bound to the caller's array instead of being
\* filled from it
IfcCopy_NoCopy ==
    /\ fn = "ifc" /\ pc = "copy"
    /\ shm_arrays' = ct
    /\ pc' = "map"
    /\ UNCHANGED <<args, base, imagevars, validvars, self_max_workers, clamps, mw_arg,
                   shm, workvars, err, ext_calls, outcome>>

\* lines 86-92: a view of ct's shape and dtype over the block, then
\* np.copyto(shm_arrays, ct)
IfcCopy ==
    /\ fn = "ifc" /\ pc = "copy"
    /\ shm_arrays' = [ct EXCEPT !.buf = "shm"]
    /\ pc' = "map"
    /\ UNCHANGED <<args, base, imagevars, validvars, self_max_workers, clamps, mw_arg,
                   shm, workvars, err, ext_calls, outcome>>

\* lines 94-105, up to the point where process_map has submitted every chunk:
\* ProcessPoolExecutor(max_workers) raises ValueError for max_workers <= 0
IfcDispatch ==
    /\ fn = "ifc" /\ pc = "map"
    /\ \E cs \in calculate_chunksize(ct.shape[1], mw_arg) :
         /\ kwargs' = [max_workers |-> mw_arg, chunksize |-> cs]
         /\ IF mw_arg < 1
            THEN /\ err' = "ValueError: max_workers must be greater than 0"
                 /\ pc' = "smm_exit"
                 /\ UNCHANGED <<pool, chunks, cstate, cresult>>
            ELSE /\ pool' = "open"
                 /\ chunks' = GetChunks(Len(Items(shm_arrays)), cs)
                 /\ cstate' = [c \in DOMAIN chunks' |-> "pending"]
                 /\ cresult' = [c \in DOMAIN chunks' |-> None]
                 /\ pc' = "collect"
                 /\ UNCHANGED err
    /\ UNCHANGED <<args, base, imagevars, validvars, self_max_workers, clamps, mw_arg,
                   memvars, nxt, rst, applied, ext_calls, outcome>>

(***************************************************************************)
(* process_map, lines 101-105: a ProcessPoolExecutor of kwargs.max_workers *)
(* processes runs the chunks; the caller reads list(ex.map(...))           *)
(***************************************************************************)
Running == {c \in DOMAIN cstate : cstate[c] = "running"}
Pending == {c \in DOMAIN cstate : cstate[c] = "pending"}

\* a free worker process takes the oldest chunk of the queue
WorkerStart(c) ==
    /\ pool = "open"
    /\ c \in Pending
    /\ \A d \in Pending : c <= d
    /\ Cardinality(Running) < kwargs.max_workers
    /\ cstate' = [cstate EXCEPT ![c] = "running"]
    /\ UNCHANGED <<args, base, imagevars, validvars, pc, self_max_workers,
                   clamps, mw_arg,
                   memvars, kwargs, pool, chunks, cresult, nxt, rst, applied,
                   err, ext_calls, outcome>>

\* the worker runs the function on the frames of its chunk, one after the
\* other, and stops at the first that raises
WorkerFinish(c) ==
    /\ pool = "open"
    /\ c \in Running
    /\ LET chunk == chunks[c]
           bad == {k \in DOMAIN chunk : WorkerTask(chunk[k]).raised}
       IN  IF bad = {}
           THEN /\ cstate' = [cstate EXCEPT ![c] = "done"]
                /\ cresult' = [cresult EXCEPT ![c] =
                       [k \in DOMAIN chunk |-> WorkerTask(chunk[k]).value]]
                /\ applied' = applied \cup {chunk[k] : k \in DOMAIN chunk}
           ELSE /\ cstate' = [cstate EXCEPT ![c] = "failed"]
                /\ cresult' = [cresult EXCEPT ![c] =
                       WorkerTask(chunk[Min(bad)]).error]
                /\ applied' = applied \cup
                       {chunk[k] : k \in {j \in DOMAIN chunk : j <= Min(bad)}}
    /\ UNCHANGED <<args, base, imagevars, validvars, pc, self_max_workers,
                   clamps, mw_arg,
                   memvars, kwargs, pool, chunks, nxt, rst, err, ext_calls,
                   outcome>>

\* faulty variant: results are taken as the chunks complete
Collect_AsCompleted ==
    /\ pc = "collect"
    /\ \E c \in DOMAIN chunks :
         /\ cstate[c] \in {"done", "failed"}
         /\ IF cstate[c] = "done"
            THEN /\ rst' = rst \o cresult[c]
                 /\ cstate' = [cstate EXCEPT ![c] = "collected"]
                 /\ nxt' = nxt + 1
                 /\ pc' = IF nxt' > Len(chunks) THEN "pool_exit" ELSE "collect"
                 /\ UNCHANGED err
            ELSE /\ err' = cresult[c]
                 /\ pc' = "unwind"
                 /\ UNCHANGED <<rst, nxt, cstate>>
    /\ UNCHANGED <<args, base, imagevars, validvars, self_max_workers, clamps, mw_arg,
                   memvars, kwargs, pool, chunks, cresult, applied,
                   ext_calls, outcome>>

\* faulty variant: each chunk's results are put in front of those collected before
Collect_Prepend ==
    /\ pc = "collect"
    /\ nxt \in DOMAIN chunks
    /\ cstate[nxt] \in {"done", "failed"}
    /\ IF cstate[nxt] = "done"
       THEN /\ rst' = cresult[nxt] \o rst
            /\ nxt' = nxt + 1
            /\ pc' = IF nxt' > Len(chunks) THEN "pool_exit" ELSE "collect"
            /\ UNCHANGED err
       ELSE /\ err' = cresult[nxt]
            /\ pc' = "unwind"
            /\ UNCHANGED <<rst, nxt>>
    /\ UNCHANGED <<args, base, imagevars, validvars, self_max_workers, clamps, mw_arg,
                   memvars, kwargs, pool, chunks, cstate, cresult, applied,
                   ext_calls, outcome>>

\* faulty variant: a failed chunk is skipped and the frames of the others returned
Collect_SkipFailed ==
    /\ pc = "collect"
    /\ nxt \in DOMAIN chunks
    /\ cstate[nxt] \in {"done", "failed"}
    /\ rst' = IF cstate[nxt] = "done" THEN rst \o cresult[nxt] ELSE rst
    /\ nxt' = nxt + 1
    /\ pc' = IF nxt' > Len(chunks) THEN "pool_exit" ELSE "collect"
    /\ UNCHANGED <<args, base, imagevars, validvars, self_max_workers, clamps, mw_arg,
                   memvars, kwargs, pool, chunks, cstate, cresult, applied,
                   err, ext_calls, outcome>>

\* the caller takes the results chunk by chunk in the order of submission; the
\* exception of a failed chunk is raised when its turn comes
Collect ==
    /\ pc = "collect"
    /\ nxt \in DOMAIN chunks
    /\ cstate[nxt] \in {"done", "failed"}
    /\ IF cstate[nxt] = "done"
       THEN /\ rst' = rst \o cresult[nxt]
            /\ nxt' = nxt + 1
            /\ pc' = IF nxt' > Len(chunks) THEN "pool_exit" ELSE "collect"
            /\ UNCHANGED err
       ELSE /\ err' = cresult[nxt]
            /\ pc' = "unwind"
            /\ UNCHANGED <<rst, nxt>>
    /\ UNCHANGED <<args, base, imagevars, validvars, self_max_workers, clamps, mw_arg,
                   memvars, kwargs, pool, chunks, cstate, cresult, applied,
                   ext_calls, outcome>>

\* the exception leaves ex.map: the futures not yet started are cancelled,
\* except those already queued for a worker, which still run
Cancel(c) ==
    /\ pc = "unwind"
    /\ pool = "open"
    /\ c \in Pending
    /\ cstate' = [cstate EXCEPT ![c] = "cancelled"]
    /\ UNCHANGED <<args, base, imagevars, validvars, pc, self_max_workers,
                   clamps, mw_arg,
                   memvars, kwargs, pool, chunks, cresult, nxt, rst, applied,
                   err, ext_calls, outcome>>

\* the with block of the executor ends: shutdown(wait=True)
PoolExit ==
    /\ pc \in {"pool_exit", "unwind"}
    /\ pool = "open"
    /\ Running = {} /\ Pending = {}
    /\ pool' = "closed"
    /\ pc' = "smm_exit"
    /\ UNCHANGED <<args, base, imagevars, validvars, self_max_workers, clamps, mw_arg,
                   memvars, kwargs, chunks, cstate, cresult, nxt, rst, applied,
                   err, ext_calls, outcome>>

\* faulty variant: the block is unlinked on the normal exit only
SmmExit_LeakOnError ==
    /\ fn = "ifc" /\ pc = "smm_exit"
    /\ IF err # None
       THEN /\ outcome' = Raised(err)
            /\ pc' = "done"
            /\ UNCHANGED shm
       ELSE /\ pc' = "return"
            /\ shm' = IF shm = "allocated" THEN "released" ELSE shm
            /\ UNCHANGED outcome
    /\ UNCHANGED <<args, base, imagevars, validvars, self_max_workers, clamps, mw_arg,
                   shm_arrays, workvars, err, ext_calls>>

\* the with block of line 82 ends: the manager unlinks its blocks, and an
\* exception in flight goes on to the caller
SmmExit ==
    /\ fn = "ifc" /\ pc = "smm_exit"
    /\ shm' = IF shm = "allocated" THEN "released" ELSE shm
    /\ IF err # None
       THEN /\ outcome' = Raised(err)
            /\ pc' = "done"
       ELSE /\ pc' = "return"
            /\ UNCHANGED outcome
    /\ UNCHANGED <<args, base, imagevars, validvars, self_max_workers, clamps, mw_arg,
                   shm_arrays, workvars, err, ext_calls>>

\* line 107, then lines 71-72
IfcReturn ==
    /\ fn = "ifc" /\ pc = "return"
    /\ outcome' = Returned(NpArray(rst))
    /\ pc' = "done"
    /\ UNCHANGED <<args, base, imagevars, validvars, self_max_workers, clamps, mw_arg,
                   memvars, workvars, err, ext_calls>>

(***************************************************************************)
(* normalize_roi, lines 236-260                                            *)
(***************************************************************************)
\* faulty variant: max_workers declared without bounds
RoiInstance_NoBounds ==
    /\ fn = "roi" /\ pc = "call"
    /\ pc' = "clamp"
    /\ UNCHANGED <<args, base, imagevars, validvars, self_max_workers, clamps, mw_arg,
                   memvars, workvars, err, ext_calls, outcome>>

\* line 240; max_workers is declared with bounds=(0, None) at lines 230-234
RoiInstance ==
    /\ fn = "roi" /\ pc = "call"
    /\ IF max_workers < 0
       THEN /\ outcome' = Raised(ErrBounds)
            /\ pc' = "done"
       ELSE /\ pc' = "clamp"
            /\ UNCHANGED outcome
    /\ UNCHANGED <<args, base, imagevars, validvars, self_max_workers, clamps, mw_arg,
                   memvars, workvars, err, ext_calls>>

\* lines 245-251
RoiClamp ==
    /\ fn = "roi" /\ pc = "clamp"
    /\ self_max_workers' = clamp_max_workers(max_workers, cpu)
    /\ clamps' = clamps + 1
    /\ mw_arg' = self_max_workers'
    /\ pc' = "validate"
    /\ UNCHANGED <<args, base, imagevars, validvars, memvars, workvars, err, ext_calls,
                   outcome>>

\* faulty variant: a single radiograph is let through as well
RoiValidate_Accept2D ==
    /\ fn = "roi" /\ pc = "validate"
    /\ IF ct.ndim \notin {2, 3}
       THEN /\ outcome' = Raised(ErrRoiRank)
            /\ pc' = "done"
       ELSE /\ pc' = "delegate"
            /\ UNCHANGED outcome
    /\ UNCHANGED <<args, base, imagevars, validvars, self_max_workers, clamps, mw_arg,
                   memvars, workvars, err, ext_calls>>

\* lines 257-258
RoiValidate ==
    /\ fn = "roi" /\ pc = "validate"
    /\ IF ct.ndim # 3
       THEN /\ outcome' = Raised(ErrRoiRank)
            /\ pc' = "done"
       ELSE /\ pc' = "delegate"
            /\ UNCHANGED outcome
    /\ UNCHANGED <<args, base, imagevars, validvars, self_max_workers, clamps, mw_arg,
                   memvars, workvars, err, ext_calls>>

\* lines 259-260, then lines 252-253
RoiNormalize ==
    /\ fn = "roi" /\ pc = "delegate"
    /\ ext_calls' = Append(ext_calls,
           [name |-> "tomopy.normalize_roi", arr |-> ct, roi |-> roi,
            ncore |-> mw_arg])
    /\ outcome' = Returned(tomopy_normalize_roi(ct, roi, mw_arg))
    /\ pc' = "done"
    /\ UNCHANGED <<args, base, imagevars, validvars, self_max_workers, clamps, mw_arg,
                   memvars, workvars, err>>

(***************************************************************************)
(* The caller repeats an adaptive call that ran with one worker, on the    *)
(* same stack, with another worker count                                   *)
(***************************************************************************)
Again ==
    /\ fn = "ifc" /\ pc = "done" /\ air_pixels < 0
    /\ base = NoOutcome
    /\ self_max_workers = 1
    /\ base' = outcome
    /\ \E m \in {r \in Requests : r >= 0} : max_workers' = m
    /\ pc' = "call"
    /\ self_max_workers' = 0
    /\ clamps' = 0
    /\ mw_arg' = None
    /\ shm' = "none"
    /\ shm_arrays' = NoArray
    /\ kwargs' = NoKwargs
    /\ pool' = "none"
    /\ chunks' = <<>>
    /\ cstate' = <<>>
    /\ cresult' = <<>>
    /\ nxt' = 1
    /\ rst' = <<>>
    /\ err' = None
    /\ ext_calls' = <<>>
    /\ applied' = {}
    /\ outcome' = NoOutcome
    /\ UNCHANGED <<fn, ct, air_pixels, sigma, roi, cpu, canny, faulty, imagevars,
                   validvars>>

Next ==
    \/ IfcInstance \/ IfcClamp \/ IfcValidate \/ IfcPolicy \/ IfcNormalizeBg
    \/ IfcAlloc \/ IfcCopy \/ IfcDispatch
    \/ \E c \in DOMAIN chunks : WorkerStart(c)
    \/ \E c \in DOMAIN chunks : WorkerFinish(c)
    \/ Collect
    \/ \E c \in DOMAIN chunks : Cancel(c)
    \/ PoolExit \/ SmmExit \/ IfcReturn
    \/ RoiInstance \/ RoiClamp \/ RoiValidate \/ RoiNormalize
    \/ Again

Spec == Init /\ [][Next]_vars

(***************************************************************************)
(* The per-image function alone, on every image and every mask             *)
(***************************************************************************)
CallIdle ==
    /\ fn = "image" /\ ct = None /\ air_pixels = -1 /\ sigma = 3
    /\ roi = RoiDefault /\ max_workers = 0 /\ cpu = 1 /\ canny = "none"
    /\ faulty = {} /\ base = NoOutcome
    /\ CallStart

InitImage ==
    /\ \E h \in Heights, w \in 1..MaxW :
         /\ image \in Images(h, w)
         /\ edge \in Masks(h, w)
    /\ out = NoOutcome
    /\ CallIdle
    /\ ValidIdle

Apply ==
    /\ fn = "image" /\ out = NoOutcome
    /\ out' = intensity_fluctuation_correction_skimage(image, edge)
    /\ UNCHANGED <<callvars, image, edge, validvars>>

NextImage == Apply

SpecImage == InitImage /\ [][NextImage]_vars

(***************************************************************************)
(* validate.py.  A str is the sequence of its characters.  A JSON value is *)
(* a record tagged with its JSON type: an object carries the function m    *)
(* from its keys to their values, an array the sequence a of its items, a  *)
(* string its characters s.                                                *)
(***************************************************************************)
MaxChars == 5    \* longest "function" entry

Chars == {"p", "m", "f", ".", " "}
Strings == UNION {[1..n -> Chars] : n \in 0..MaxChars}

JStr(s_) == [t |-> "string", s |-> s_]
JNum == [t |-> "number", n |-> 0]
JArr(a_) == [t |-> "array", a |-> a_]
JObj(m_) == [t |-> "object", m |-> m_]

\* ---- methods of str
Contains(s, c) == \E i \in 1..Len(s) : s[i] = c

\* s.split(sep) for a separator of one character
RECURSIVE Split(_, _)
Split(s, sep) ==
    IF ~Contains(s, sep) THEN <<s>>
    ELSE LET i == Min({k \in 1..Len(s) : s[k] = sep})
         IN  <<SubSeq(s, 1, i - 1)>> \o Split(SubSeq(s, i + 1, Len(s)), sep)

\* sep.join(parts)
RECURSIVE Join(_, _)
Join(parts, sep) ==
    IF parts = <<>> THEN <<>>
    ELSE IF Len(parts) = 1 THEN parts[1]
    ELSE parts[1] \o <<sep>> \o Join(Tail(parts), sep)

\* s.strip()
Strip(s) ==
    LET keep == {k \in 1..Len(s) : s[k] # " "}
    IN  IF keep = {} THEN <<>> ELSE SubSeq(s, Min(keep), Max(keep))

\* ---- what the interpreter can import: the package p, and its module p.m,
\* which defines the function f and nothing else
Modules == {<<"p">>, <<"p", ".", "m">>}
Packages == {<<"p">>}
ModuleFunctions(mod) == IF mod = <<"p", ".", "m">> THEN {<<"f">>} ELSE {}

ErrNoPackage == "ImportError: no package specified (required for relative module names)"
ErrBeyondTop == "ImportError: attempted relative import beyond top-level package"
ErrModuleNotFound == "ModuleNotFoundError"

\* importlib.util.find_spec(name, package): package only serves to resolve a
\* relative name; the parent of a dotted name is imported, and must be a
\* package; the value is the module's spec, or None when it is not found
find_spec(name, package) ==
    LET dots == {k \in 1..Len(name) : \A j \in 1..k : name[j] = "."}
        level == Cardinality(dots)
        rest == SubSeq(name, level + 1, Len(name))
        fullname == IF level = 0 THEN name
                    ELSE IF rest = <<>> THEN package
                    ELSE package \o <<".">> \o rest
        parts == Split(fullname, ".")
        parent_name == Join(SubSeq(parts, 1, Len(parts) - 1), ".")
    IN  IF level > 0 /\ package = <<>> THEN Raised(ErrNoPackage)
        ELSE IF level > Len(Split(package, ".")) THEN Raised(ErrBeyondTop)
        ELSE IF fullname \in Modules THEN Returned("ModuleSpec")
        ELSE IF ~Contains(fullname, ".") THEN Returned(None)
        ELSE IF parent_name \notin Packages THEN Raised(ErrModuleNotFound)
        ELSE Returned(None)

\* lines 48-52
_function_parts(func_str_) ==
    LET parts == Split(func_str_, ".")
    IN  <<Join(SubSeq(parts, 1, Len(parts) - 1), "."), parts[Len(parts)]>>

\* lines 55-59
_function_exists(func_str_) ==
    LET mod_str == _function_parts(func_str_)[1]
        name == _function_parts(func_str_)[2]
        found == find_spec(mod_str, name)
    IN  IF found.kind = "raised" THEN found
        ELSE Returned(found.value # None)

ErrEmptyFunction == "JSONValidationError: Step specified empty function"
ErrNotAbsolute == "JSONValidationError: Function does not appear to be absolute specification"
ErrNonexistent == "JSONValidationError: Step specified nonexistent function"
ErrSchema == "JSONValidationError: While validation configuration file"
ErrSubscript == "TypeError: object is not subscriptable"
ErrKey == "KeyError"
ErrNoStrip == "AttributeError: object has no attribute strip"

\* lines 65-72 for one task
CheckTask(task) ==
    IF task.t # "object" THEN Raised(ErrSubscript)
    ELSE IF "function" \notin DOMAIN task.m THEN Raised(ErrKey)
    ELSE IF task.m["function"].t # "string" THEN Raised(ErrNoStrip)
    ELSE LET stripped == Strip(task.m["function"].s)
         IN  IF stripped = <<>> THEN Raised(ErrEmptyFunction)
             ELSE IF ~Contains(stripped, ".") THEN Raised(ErrNotAbsolute)
             ELSE LET e == _function_exists(stripped)
                  IN  IF e.kind = "raised" THEN e
                      ELSE IF ~e.value THEN Raised(ErrNonexistent)
                      ELSE Returned(None)

\* lines 62-72: the first task that raises ends the loop
_validate_tasks_exist(json_obj) ==
    IF json_obj.t # "object" THEN Raised(ErrSubscript)
    ELSE IF "tasks" \notin DOMAIN json_obj.m THEN Raised(ErrKey)
    ELSE LET tasks == json_obj.m["tasks"].a
             bad == {k \in 1..Len(tasks) : CheckTask(tasks[k]).kind = "raised"}
         IN  IF bad = {} THEN Returned(None) ELSE CheckTask(tasks[Min(bad)])

\* a task entry and a configuration that satisfy the schema
Task(function) ==
    JObj("name" :> JStr(<<"f">>) @@ "function" :> JStr(function)
         @@ "inputs" :> JObj(<<>>))

Config(tasks) ==
    JObj("instrument" :> JStr(<<"m">>) @@ "ipts" :> JStr(<<"m">>)
         @@ "name" :> JStr(<<"m">>) @@ "workingdir" :> JStr(<<"m">>)
         @@ "outputdir" :> JStr(<<"m">>) @@ "tasks" :> JArr(tasks))

\* no call of the corrections is under way
NoCall ==
    /\ ct = None /\ air_pixels = -1 /\ sigma = 3
    /\ roi = RoiDefault /\ max_workers = 0 /\ cpu = 1 /\ canny = "none"
    /\ faulty = {} /\ base = NoOutcome
    /\ CallStart
    /\ ImageIdle

(***************************************************************************)
(* _function_exists and _validate_tasks_exist on every function string     *)
(***************************************************************************)
InitExists ==
    /\ fn = "exists"
    /\ func_str \in Strings
    /\ exists_out = NoOutcome /\ tasks_out = NoOutcome
    /\ obj_json = NoJson /\ set_out = NoOutcome /\ got = NoOutcome
    /\ NoCall

FunctionExists ==
    /\ fn = "exists" /\ exists_out = NoOutcome
    /\ exists_out' = _function_exists(func_str)
    /\ UNCHANGED <<callvars, imagevars, func_str, tasks_out, obj_json, set_out,
                   got>>

ValidateTasksExist ==
    /\ fn = "exists" /\ tasks_out = NoOutcome
    /\ tasks_out' = _validate_tasks_exist(Config(<<Task(func_str)>>))
    /\ UNCHANGED <<callvars, imagevars, func_str, exists_out, obj_json,
                   set_out, got>>

NextExists == FunctionExists \/ ValidateTasksExist

SpecExists == InitExists /\ [][NextExists]_vars

(***************************************************************************)
(* The JSONValid descriptor, lines 94-108                                  *)
(***************************************************************************)
StringKeys == {"instrument", "ipts", "name", "workingdir", "outputdir"}
RequiredKeys == StringKeys \cup {"tasks"}

\* "items" of lines 25-33: the schema gives no type for an item, so its
\* keywords constrain an item only when the item is an object
ItemValid(item) ==
    item.t = "object" =>
        /\ {"name", "function", "inputs"} \subseteq DOMAIN item.m
        /\ item.m["name"].t = "string"
        /\ item.m["function"].t = "string"
        /\ item.m["inputs"].t = "object"
        /\ "outputs" \in DOMAIN item.m => item.m["outputs"].t = "array"

\* jsonschema.validate(json_obj, schema=SCHEMA) does not raise, lines 13-37
SchemaValid(json_obj) ==
    /\ json_obj.t = "object"
    /\ RequiredKeys \subseteq DOMAIN json_obj.m
    /\ \A k \in StringKeys : json_obj.m[k].t = "string"
    /\ json_obj.m["tasks"].t = "array"
    /\ Len(json_obj.m["tasks"].a) >= 1
    /\ \A k \in 1..Len(json_obj.m["tasks"].a) :
          ItemValid(json_obj.m["tasks"].a[k])

\* lines 40-45
_validate_schema(json_obj) ==
    IF SchemaValid(json_obj) THEN Returned(None) ELSE Raised(ErrSchema)

\* lines 106-108
_validate(json_obj) ==
    IF _validate_schema(json_obj).kind = "raised"
    THEN _validate_schema(json_obj)
    ELSE _validate_tasks_exist(json_obj)

\* ---- the configurations of the model
GoodFunction == <<"p", ".", "m", ".", "f">>
Good == Config(<<Task(GoodFunction)>>)
GoodTwo == Config(<<Task(GoodFunction), Task(<<" ">> \o GoodFunction)>>)
NoModule == Config(<<Task(GoodFunction), Task(<<"m", ".", "f">>)>>)
NoParent == Config(<<Task(<<"f", ".", "m", ".", "f">>)>>)
Blank == Config(<<Task(<<" ">>)>>)
NoDot == Config(<<Task(<<"p", "m", "f">>)>>)
NumberItem == Config(<<JNum>>)
NoTask == Config(<<>>)
NoTasksKey == JObj([k \in StringKeys |-> JStr(<<"m">>)])
NumberIpts == JObj([Good.m EXCEPT !["ipts"] = JNum])

Documents ==
    {Good, GoodTwo, NoModule, NoParent, Blank, NoDot, NumberItem, NoTask,
     NoTasksKey, NumberIpts}

\* a JSON text is the document it encodes, or is malformed
Text(doc_) == [wellformed |-> TRUE, doc |-> doc_]
Malformed == [wellformed |-> FALSE, doc |-> NoJson]

\* the files on disk, by path
Paths == {"good.json", "notasks.json", "broken.json", "absent.json"}
FileText(path) ==
    CASE path = "good.json" -> Text(GoodTwo)
      [] path = "notasks.json" -> Text(NoTasksKey)
      [] path = "broken.json" -> Malformed
      [] OTHER -> Malformed
FileExists(path) == path # "absent.json"

\* the values a caller assigns
PyDict(doc_) == [py |-> "dict", dict |-> doc_]
PyStr(text_) == [py |-> "str", text |-> text_]
PyPath(path_) == [py |-> "Path", path |-> path_]
PyInt == [py |-> "int", int |-> 0]

Values ==
    {PyDict(d) : d \in Documents}
    \cup {PyStr(Text(Good)), PyStr(Text(JNum)), PyStr(Text(NoTask)),
          PyStr(Malformed)}
    \cup {PyPath(q) : q \in Paths}
    \cup {PyInt}

ErrDecode == "json.JSONDecodeError"
ErrNoFile == "FileNotFoundError"
ErrTodict == "TypeError: Do not know how to convert type to dict"
ErrNoJson == "AttributeError: object has no attribute _json"

\* json.loads, line 83, and json.load, line 81
json_loads(text) ==
    IF text.wellformed THEN Returned(text.doc) ELSE Raised(ErrDecode)

\* lines 75-85
_todict(value) ==
    CASE value.py = "dict" -> Returned(value.dict)
      [] value.py = "Path" ->
            IF FileExists(value.path) THEN json_loads(FileText(value.path))
            ELSE Raised(ErrNoFile)
      [] value.py = "str" -> json_loads(value.text)
      [] OTHER -> Raised(ErrTodict)

InitValid ==
    /\ fn = "valid"
    /\ ValidIdle
    /\ NoCall

\* lines 102-104: the converted value is stored, then validated
Set ==
    /\ fn = "valid"
    /\ \E value \in Values :
         IF _todict(value).kind = "raised"
         THEN /\ set_out' = _todict(value)
              /\ UNCHANGED obj_json
         ELSE /\ obj_json' = _todict(value).value
              /\ set_out' = _validate(obj_json')
    /\ UNCHANGED <<callvars, imagevars, func_str, exists_out, tasks_out, got>>

\* lines 99-100
Get ==
    /\ fn = "valid"
    /\ got' = IF obj_json = NoJson THEN Raised(ErrNoJson)
              ELSE Returned(obj_json)
    /\ UNCHANGED <<callvars, imagevars, func_str, exists_out, tasks_out,
                   obj_json, set_out>>

NextValid == Set \/ Get

SpecValid == InitValid /\ [][NextValid]_vars

(***************************************************************************)
(* Properties                                                              *)
(***************************************************************************)
NothingDispatched ==
    /\ shm = "none" /\ shm_arrays = NoArray
    /\ pool = "none" /\ chunks = <<>> /\ applied = {}

\* C1: an array whose rank is neither 2 nor 3 makes
\* intensity_fluctuation_correction fail with a validation error whatever
\* air_pixels is, and no shared memory is allocated, no frame reaches a worker
\* and tomopy is not called.
C1_RankRejected ==
    (fn = "ifc" /\ ct.ndim \notin {2, 3}) =>
        /\ NothingDispatched
        /\ ext_calls = <<>>
        /\ pc \in {"call", "clamp", "validate", "done"}
        /\ pc = "done" =>
              outcome = Raised(IF max_workers < 0 THEN ErrBounds ELSE ErrRank)

C1_Witness ==
    /\ fn = "ifc" /\ ct.ndim = 4 /\ air_pixels < 0 /\ max_workers >= 0
    /\ pc = "done" /\ outcome = Raised(ErrRank)

\* C2: for a non-empty 2D image or 3D stack and either policy the call
\* returns an array of the shape of the input, and on the adaptive path every
\* array handed to the per-image function is a whole 2D image.
C2_ShapePreserved ==
    (/\ fn = "ifc" /\ pc = "done" /\ max_workers >= 0
     /\ ct.ndim \in {2, 3} /\ NBytes(ct) > 0 /\ faulty = {}) =>
        /\ outcome.kind = "returned"
        /\ outcome.value.shape = ct.shape
        /\ air_pixels < 0 =>
              /\ applied = 1..(IF ct.ndim = 2 THEN 1 ELSE Len(ct.data))
              /\ \A k \in applied : Items(shm_arrays)[k].ndim = 2

\* C3: an image whose air-pixel collection is empty or whose air-pixel mean
\* is 0 makes the per-image function raise; it never returns an image divided
\* by a zero or NaN factor.
C3_DegenerateRaises ==
    (/\ fn = "image" /\ out # NoOutcome
     /\ (Len(AirPixels(image, edge)) = 0 \/ factor(image, edge).num = 0)) =>
        out.raised

\* C4: on the adaptive path no block of the call is still allocated once the
\* call has returned or raised, and the block is not released while a chunk is
\* queued or running.
C4_ShmScoped ==
    /\ (pc = "done" \/ outcome # NoOutcome) => shm # "allocated"
    /\ shm = "released" => (Running = {} /\ Pending = {} /\ pool = "closed")
    /\ shm = "allocated" => (fn = "ifc" /\ air_pixels < 0)

C4_Witness ==
    /\ pc = "done" /\ shm = "released" /\ outcome.kind = "raised"
    /\ \E c \in DOMAIN cstate : cstate[c] = "failed"
    /\ \E c \in DOMAIN cstate : cstate[c] = "done"

\* C5: on the adaptive path, when the task of any frame raises the call
\* raises: an array is returned only if every frame was corrected, so no
\* partial stack is returned and no failing frame is skipped.
C5_FrameFailureFailsCall ==
    (fn = "ifc" /\ pc = "done" /\ shm_arrays # NoArray) =>
        /\ (\E c \in DOMAIN cstate : cstate[c] = "failed") =>
              outcome.kind = "raised"
        /\ (\E k \in 1..Len(shm_arrays.data) : WorkerTask(k).raised) =>
              outcome.kind = "raised"
        /\ outcome.kind = "returned" =>
              Len(outcome.value.data) = Len(shm_arrays.data)

C5_Witness ==
    /\ fn = "ifc" /\ pc = "done" /\ outcome = Raised(ErrMemory)
    /\ cstate = <<"done", "failed">>
    /\ rst # <<>>

\* C6: the sign of air_pixels alone selects the policy: air_pixels >= 0
\* (0 included) calls tomopy.normalize_bg(ct, air=air_pixels, ncore=resolved
\* worker count) once and touches neither shared memory nor the detector;
\* air_pixels < 0 never calls tomopy.
C6_PolicyBySign ==
    fn = "ifc" =>
        /\ air_pixels >= 0 =>
              /\ NothingDispatched
              /\ pc \notin {"alloc", "copy", "map", "collect", "unwind",
                            "pool_exit", "smm_exit", "return"}
              /\ Len(ext_calls) <= 1
              /\ \A i \in DOMAIN ext_calls :
                    ext_calls[i] =
                        [name |-> "tomopy.normalize_bg", arr |-> ct,
                         air |-> air_pixels,
                         ncore |-> clamp_max_workers(max_workers, cpu)]
              /\ (pc = "done" /\ outcome.kind = "returned") =>
                    Len(ext_calls) = 1
        /\ air_pixels < 0 =>
              /\ ext_calls = <<>>
              /\ pc # "delegate"

C6_Witness ==
    /\ fn = "ifc" /\ air_pixels = 0 /\ pc = "done"
    /\ outcome.kind = "returned" /\ Len(ext_calls) = 1

\* C7: the adaptive correction of a stack with more than one worker, whatever
\* the chunk size, ends as the correction of the same stack with one worker
\* ended.
C7_WorkerCountInvariance ==
    (base # NoOutcome /\ pc = "done") => outcome = base

C7_Witness ==
    /\ base # NoOutcome /\ base.kind = "returned"
    /\ pc = "done" /\ outcome.kind = "returned"
    /\ kwargs.max_workers > 1 /\ Len(chunks) > 1
    /\ ct.data[1] # ct.data[2]

\* C8: on the adaptive path frame k of the returned stack is the correction
\* of frame k of the input, whatever the order in which the chunks finished:
\* no frame is lost, duplicated or moved.
Expected ==
    [k \in 1..Len(ct.data) |->
        intensity_fluctuation_correction_skimage(
            ct.data[k], feature_canny(canny, ct.data[k])).value]

C8_FrameOrder ==
    (/\ fn = "ifc" /\ air_pixels < 0 /\ ct.ndim = 3
     /\ pc = "done" /\ outcome.kind = "returned") =>
        outcome.value.data = Expected

C8_Witness ==
    /\ fn = "ifc" /\ air_pixels < 0 /\ ct.ndim = 3
    /\ pc = "done" /\ outcome.kind = "returned"
    /\ Len(chunks) = 2 /\ kwargs.max_workers >= 2
    /\ Expected[1] # Expected[2]

\* C9: a request of 0 or more workers is resolved once, before dispatch, and
\* the count given to the pool, to the chunk-size computation and to tomopy is
\* in [1, parallelism of the host]; a request above it is capped, not refused.
C9_WorkersResolved ==
    /\ clamps <= 1
    /\ clamps = 1 => mw_arg \in 1..cpu
    /\ kwargs # NoKwargs => (clamps = 1 /\ kwargs.max_workers \in 1..cpu)
    /\ \A i \in DOMAIN ext_calls : clamps = 1 /\ ext_calls[i].ncore \in 1..cpu
    /\ (max_workers >= 0 /\ pc = "done") =>
          (clamps = 1 /\ outcome # Raised(ErrBounds))

C9_Witness ==
    /\ fn = "ifc" /\ max_workers > cpu /\ pool = "open"
    /\ kwargs.max_workers = cpu

\* C10: a negative max_workers is refused by the bounds check of either
\* function before the worker count is clamped, the array validated, shared
\* memory allocated or anything dispatched.
C10_NegativeWorkersRejected ==
    max_workers < 0 =>
        /\ clamps = 0 /\ self_max_workers = 0
        /\ NothingDispatched /\ ext_calls = <<>>
        /\ pc \in {"call", "done"}
        /\ pc = "done" => outcome = Raised(ErrBounds)

C10_Witness ==
    /\ fn = "roi" /\ max_workers < 0 /\ ct.ndim # 3
    /\ pc = "done" /\ outcome = Raised(ErrBounds)

\* C11: a sigma <= 0 given to intensity_fluctuation_correction is refused as a
\* configuration error before shared memory is allocated and before any frame
\* reaches the edge detector.
C11_SigmaRejected ==
    (fn = "ifc" /\ sigma <= 0 /\ max_workers >= 0 /\ ct.ndim \in {2, 3}) =>
        /\ NothingDispatched
        /\ pc = "done" => outcome.kind = "raised"

\* what row i adds to the air collection, lines 195-199
RowAir(i) == Len(RowLeft(image, edge, i)) + Len(RowRight(image, edge, i))

\* C12: for every image of width W >= 1 and every mask, each row's bounds
\* satisfy 0 <= start_cols[i] <= stop_cols[i] <= W, with or without edge
\* pixels in the row.
C12_RowBounds ==
    (fn = "image" /\ out # NoOutcome) =>
        \A i \in 1..Len(image) :
            /\ 0 <= start_cols(image, edge)[i]
            /\ start_cols(image, edge)[i] <= stop_cols(image, edge)[i]
            /\ stop_cols(image, edge)[i] <= Len(image[1])

C12_Witness ==
    /\ fn = "image" /\ out # NoOutcome
    /\ Len(image) = 2 /\ Len(image[1]) = MaxW
    /\ EdgeColumns(edge[1]) = {}
    /\ EdgeColumns(edge[2]) = {1, MaxW - 1}
    /\ start_cols(image, edge)[2] < stop_cols(image, edge)[2]

\* C13: a row without any edge pixel adds all W of its pixels to the air
\* collection, and the function does not raise because of such a row.
C13_NoEdgeRowWhole ==
    (fn = "image" /\ out # NoOutcome) =>
        /\ ~out.raised
        /\ \A i \in 1..Len(image) :
              EdgeColumns(edge[i]) = {} => RowAir(i) = Len(image[i])

\* C14: a row whose first edge pixel is at column 0 and whose last is at
\* column W-1 adds no pixel to the air collection (as stated); what holds is
\* that it adds exactly one pixel, the one at column W-1.
C14_FullSpanRowZero ==
    (fn = "image" /\ out # NoOutcome) =>
        \A i \in 1..Len(image) :
            ({0, Len(image[i]) - 1} \subseteq EdgeColumns(edge[i])) =>
                RowAir(i) = 0

C14_FullSpanRowOne ==
    (fn = "image" /\ out # NoOutcome) =>
        \A i \in 1..Len(image) :
            ({0, Len(image[i]) - 1} \subseteq EdgeColumns(edge[i])) =>
                /\ RowLeft(image, edge, i) = <<>>
                /\ RowRight(image, edge, i) = <<image[i][Len(image[i])]>>
                /\ stop_cols(image, edge)[i] = Len(image[i]) - 1

C14_Witness ==
    /\ fn = "image" /\ out # NoOutcome
    /\ Len(image[1]) = MaxW
    /\ EdgeColumns(edge[1]) = {0, MaxW - 1}
    /\ RowAir(1) = 1

\* the one call normalize_roi makes to tomopy for its arguments
RoiCall ==
    [name |-> "tomopy.normalize_roi", arr |-> ct, roi |-> roi,
     ncore |-> clamp_max_workers(max_workers, cpu)]

\* C15: normalize_roi raises a validation error for every input whose rank is
\* not 3, a 2D image included, without calling tomopy; for a 3D stack it calls
\* tomopy.normalize_roi exactly once, with the given roi and the resolved
\* worker count, and returns that call's result as it is.
C15_RoiOnlyStacks ==
    fn = "roi" =>
        /\ ct.ndim # 3 =>
              /\ ext_calls = <<>>
              /\ pc = "done" =>
                    /\ outcome.kind = "raised"
                    /\ max_workers >= 0 => outcome = Raised(ErrRoiRank)
        /\ ct.ndim = 3 =>
              /\ ext_calls \in {<<>>, <<RoiCall>>}
              /\ (pc = "done" /\ max_workers >= 0) =>
                    /\ ext_calls = <<RoiCall>>
                    /\ outcome = Returned(tomopy_normalize_roi(
                           ct, roi, clamp_max_workers(max_workers, cpu)))

C15_Witness ==
    /\ fn = "roi" /\ ct.ndim = 2 /\ max_workers >= 0
    /\ pc = "done" /\ outcome = Raised(ErrRoiRank)
    /\ clamps = 1 /\ ext_calls = <<>>

\* C16: on the adaptive path the caller's stack is never written, the shared
\* block is filled from it exactly once and never written afterwards (the
\* workers only read it), and the array the call returns lives in neither the
\* caller's buffer nor the shared block; this holds for calls that return and
\* for calls that raise.
C16_InputUntouched ==
    /\ []((fn = "ifc" /\ air_pixels < 0) =>
            /\ shm_arrays # NoArray =>
                  /\ shm_arrays.buf = "shm"
                  /\ shm_arrays.data = ct.data
                  /\ shm_arrays.shape = ct.shape
            /\ ct.buf = "caller"
            /\ outcome.kind = "returned" =>
                  outcome.value.buf \notin {"caller", "shm"})
    /\ [][/\ ct' = ct
          /\ shm_arrays' # shm_arrays =>
                \/ pc = "copy" /\ shm_arrays = NoArray
                \/ pc = "done" /\ pc' = "call" /\ shm_arrays' = NoArray]_vars

C16_Witness ==
    /\ fn = "ifc" /\ air_pixels < 0 /\ pc = "done"
    /\ outcome.kind = "returned"
    /\ Len(ct.data) = MaxFrames
    /\ shm_arrays.data = ct.data /\ shm = "released"
    /\ applied = 1..MaxFrames
    /\ outcome.value.buf = "new"

\* a function string of the form <module>.<name>: at least two components,
\* each a non-empty name
Dotted(s) ==
    /\ Len(Split(s, ".")) >= 2
    /\ \A k \in 1..Len(Split(s, ".")) :
          /\ Split(s, ".")[k] # <<>>
          /\ ~Contains(Split(s, ".")[k], " ")

\* the module of the string can be imported and defines the name
FunctionDefined(s) ==
    /\ _function_parts(s)[1] \in Modules
    /\ _function_parts(s)[2] \in ModuleFunctions(_function_parts(s)[1])

\* C17: _function_exists("<module>.<name>") returns True exactly when the
\* module defines the function; so _validate_tasks_exist raises the
\* JSONValidationError for a nonexistent function for every task whose module
\* can be imported but does not define the name, and for every task whose
\* module cannot be found.
C17_ExistsIffDefined ==
    (fn = "exists" /\ Dotted(func_str)) =>
        /\ exists_out # NoOutcome =>
              exists_out = Returned(FunctionDefined(func_str))
        /\ (tasks_out # NoOutcome /\ ~FunctionDefined(func_str)) =>
              tasks_out = Raised(ErrNonexistent)

\* the configuration went through _validate without an exception
Passed(json_obj) == _validate(json_obj).kind = "returned"

\* C18: whatever assignments were made through the descriptor, the
\* configuration it stores and returns on a read is one that passed the schema
\* validation and the task check; an assignment that raises leaves the stored
\* configuration as it was.
C18_OnlyValidReadable ==
    /\ [](fn = "valid" =>
            /\ obj_json # NoJson => Passed(obj_json)
            /\ got.kind = "returned" => Passed(got.value))
    /\ [][(fn = "valid" /\ obj_json' # obj_json) =>
              set_out'.kind = "returned"]_vars

====
